---- MODULE Spec2Model ----
(***************************************************************************)
(* Model of upgrade-provider (main.go): the repository topology            *)
(* classifier (repoKind), the version resolver (getExpectedTarget), the    *)
(* default-branch discovery (pullDefault), major-version suffix stripping  *)
(* (modPathWithoutVersion) and the job sequencing of UpgradeProvider.      *)
(*                                                                         *)
(* Go strings are modelled as sequences of one-character strings, so that  *)
(* strings.Cut, strings.HasSuffix and the versionSuffix regular expression *)
(* are computed character by character as the Go code computes them.       *)
(***************************************************************************)
EXTENDS Integers, Sequences, FiniteSets, TLC

\* ------------------------------------------------------------------------
\* Bounds of the model
\* ------------------------------------------------------------------------

\* longest trailing text appended to a module path in the stripping check
MaxSuffixLen == 4
\* most require entries of the outer manifest
MaxRequire == 2
\* most replace directives of the outer manifest
MaxReplace == 2
\* most require entries of the shim's manifest
MaxShimRequire == 1
\* most issue titles `gh issue list` prints
MaxTitles == 3
\* deepest chain of wrapped errors handed to cmd's Run
MaxWrap == 4
\* most branches of the remote
MaxBranches == 3

\* ------------------------------------------------------------------------
\* Go string primitives used by main.go
\* ------------------------------------------------------------------------

\* all sequences over S of length 0..n
SeqsUpTo(S, n) == UNION {[1..k -> S] : k \in 0..n}

\* those of them that list no element twice
ListsUpTo(S, n) ==
    {s \in SeqsUpTo(S, n) : \A i, j \in 1..Len(s) : s[i] = s[j] => i = j}

\* strings.HasPrefix(s, p)
HasPrefix(s, p) == Len(p) <= Len(s) /\ SubSeq(s, 1, Len(p)) = p

\* strings.HasSuffix(s, suf)
HasSuffix(s, suf) ==
    Len(suf) <= Len(s) /\ SubSeq(s, Len(s) - Len(suf) + 1, Len(s)) = suf

\* strings.TrimPrefix(s, p)
TrimPrefix(s, p) == IF HasPrefix(s, p) THEN SubSeq(s, Len(p) + 1, Len(s)) ELSE s

\* strings.Index(s, sep), 1-based; 0 when sep does not occur (Go: -1)
Index(s, sep) ==
    LET hits == {i \in 1..(Len(s) - Len(sep) + 1) :
                    SubSeq(s, i, i + Len(sep) - 1) = sep}
    IN  IF hits = {} THEN 0 ELSE CHOOSE i \in hits : \A j \in hits : i <= j

\* strings.Cut(s, sep): cut around the first occurrence of sep
Cut(s, sep) ==
    LET i == Index(s, sep)
    IN  IF i = 0
        THEN [before |-> s, after |-> <<>>, found |-> FALSE]
        ELSE [before |-> SubSeq(s, 1, i - 1),
              after  |-> SubSeq(s, i + Len(sep), Len(s)),
              found  |-> TRUE]

\* strings.LastIndexByte(s, c), 1-based; 0 when c does not occur (Go: -1)
LastIndexByte(s, c) ==
    LET hits == {i \in 1..Len(s) : s[i] = c}
    IN  IF hits = {} THEN 0 ELSE CHOOSE i \in hits : \A j \in hits : j <= i

\* ------------------------------------------------------------------------
\* versionSuffix = regexp.MustCompile("/v[2-9]+$") and its uses
\* ------------------------------------------------------------------------

\* the character class [2-9] of the regular expression
VersionDigits == {"2", "3", "4", "5", "6", "7", "8", "9"}

\* versionSuffix.FindStringIndex(s)[0], 1-based; 0 when there is no match.
\* A match starts at i when s[i..] is "/v" followed by one or more
\* characters of [2-9] reaching the end of s; the leftmost i is returned.
versionSuffixFindStringIndex(s) ==
    LET hits == {i \in 1..Len(s) :
                    /\ i + 2 <= Len(s)
                    /\ s[i] = "/"
                    /\ s[i + 1] = "v"
                    /\ \A k \in (i + 2)..Len(s) : s[k] \in VersionDigits}
    IN  IF hits = {} THEN 0 ELSE CHOOSE i \in hits : \A j \in hits : i <= j

\* versionSuffix.MatchString(s): an unanchored search, true when the
\* expression matches anywhere in s
versionSuffixMatchString(s) == versionSuffixFindStringIndex(s) # 0

\* func modPathWithoutVersion(path string) string
modPathWithoutVersion(path) ==
    LET match == versionSuffixFindStringIndex(path)
    IN  IF match # 0 THEN SubSeq(path, 1, match - 1) ELSE path

\* ------------------------------------------------------------------------
\* RepoKind and its methods
\* ------------------------------------------------------------------------
Plain == "plain"
Forked == "forked"
Shimmed == "shimmed"
ForkedAndShimmed == "forked & shimmed"
RepoKinds == {Plain, Forked, Shimmed, ForkedAndShimmed}

\* Shimmed() adding the shim to a kind without one and taking it from a
\* kind with one
RepoKindShimmedToggle(rk) ==
    CASE rk = Plain            -> Shimmed
      [] rk = Forked           -> ForkedAndShimmed
      [] rk = Shimmed          -> Plain
      [] rk = ForkedAndShimmed -> Forked
      [] OTHER                 -> rk

\* func (rk RepoKind) Shimmed() RepoKind
RepoKindShimmed(rk) ==
    CASE rk = Plain  -> Shimmed
      [] rk = Forked -> ForkedAndShimmed
      [] OTHER       -> rk

\* func (rk RepoKind) IsForked() bool
IsForked(rk) == rk \in {Forked, ForkedAndShimmed}

\* func (rk RepoKind) IsShimmed() bool
IsShimmed(rk) == rk \in {Shimmed, ForkedAndShimmed}

\* ------------------------------------------------------------------------
\* repoKind: the repository topology classifier
\* ------------------------------------------------------------------------
None == "none"
NotCalled == "not called"

\* "terraform-provider-"
TerraformProviderPrefix ==
    <<"t","e","r","r","a","f","o","r","m","-","p","r","o","v","i","d","e","r","-">>
\* "pulumi": the organisation a fork must be maintained by
Pulumi == <<"p","u","l","u","m","i">>

\* module.Version{} and (*modfile.Replace)(nil) / a found replace
NoModule == [Path |-> <<>>, Version |-> ""]
NoFork == <<>>

\* the errors repoKind returns, by the text that tells them apart
ErrGoMod == "go.mod: read or parse"
ErrShimRead == "shim/go.mod: read"
ErrShimParse == "shim/go.mod: parse"
ErrShimUpstream == "shim/go.mod: could not find upstream"
ErrShimStat == "unexpected error reading shim"
ErrNoUpstream == "go.mod: could not find upstream"
ErrIncorrectRepo == "go.mod: replace has incorrect repo"
ErrForkOrg == "go.mod: tf fork maintained by"

\* a manifest file: whether it can be read and parsed, and its parsed content
File(status, require, replace) ==
    [status |-> status, file |-> [Require |-> require, Replace |-> replace]]
NoFile(status) == File(status, <<>>, <<>>)

RepoKindError(e) ==
    [err |-> e, Kind |-> None, Upstream |-> NoModule, Fork |-> NoFork]

\* the closure getUpstream of repoKind: the first require entry whose
\* version-stripped path ends with tfProviderRepoName
getUpstream(file, tfProviderRepoName) ==
    LET hits == {i \in 1..Len(file.Require) :
                    HasSuffix(modPathWithoutVersion(file.Require[i].Path),
                              tfProviderRepoName)}
    IN  IF hits = {}
        THEN [err |-> TRUE, mod |-> NoModule]
        ELSE [err |-> FALSE,
              mod |-> file.Require[CHOOSE i \in hits : \A j \in hits : i <= j]]

\* lookupUpstream preferring the outer manifest's entry when it has one
lookupUpstreamOuterFirst(fs, tfProviderRepoName) ==
    LET o == getUpstream(fs.outer.file, tfProviderRepoName)
    IN  IF fs.shimStat = "ok"
        THEN IF fs.shim.status = "unreadable"
             THEN [err |-> ErrShimRead, shimmed |-> TRUE, mod |-> NoModule]
             ELSE IF fs.shim.status = "unparsable"
             THEN [err |-> ErrShimParse, shimmed |-> TRUE, mod |-> NoModule]
             ELSE LET u == getUpstream(fs.shim.file, tfProviderRepoName)
                  IN  IF ~o.err
                      THEN [err |-> None, shimmed |-> TRUE, mod |-> o.mod]
                      ELSE IF u.err
                      THEN [err |-> ErrShimUpstream, shimmed |-> TRUE, mod |-> NoModule]
                      ELSE [err |-> None, shimmed |-> TRUE, mod |-> u.mod]
        ELSE IF fs.shimStat # "notexist"
        THEN [err |-> ErrShimStat, shimmed |-> FALSE, mod |-> NoModule]
        ELSE IF o.err
             THEN [err |-> ErrNoUpstream, shimmed |-> FALSE, mod |-> NoModule]
             ELSE [err |-> None, shimmed |-> FALSE, mod |-> o.mod]

\* the shim probe of repoKind: os.Stat(shimDir) and the choice of the
\* manifest the upstream is looked up in
lookupUpstream(fs, tfProviderRepoName) ==
    IF fs.shimStat = "ok"
    THEN IF fs.shim.status = "unreadable"
         THEN [err |-> ErrShimRead, shimmed |-> TRUE, mod |-> NoModule]
         ELSE IF fs.shim.status = "unparsable"
         THEN [err |-> ErrShimParse, shimmed |-> TRUE, mod |-> NoModule]
         ELSE LET u == getUpstream(fs.shim.file, tfProviderRepoName)
              IN  IF u.err
                  THEN [err |-> ErrShimUpstream, shimmed |-> TRUE, mod |-> NoModule]
                  ELSE [err |-> None, shimmed |-> TRUE, mod |-> u.mod]
    ELSE IF fs.shimStat # "notexist"
    THEN [err |-> ErrShimStat, shimmed |-> FALSE, mod |-> NoModule]
    ELSE LET u == getUpstream(fs.outer.file, tfProviderRepoName)
         IN  IF u.err
             THEN [err |-> ErrNoUpstream, shimmed |-> FALSE, mod |-> NoModule]
             ELSE [err |-> None, shimmed |-> FALSE, mod |-> u.mod]

\* the organisation segment of a replacement: the text of `before` after
\* its last '/'
forkOrg(before) == SubSeq(before, LastIndexByte(before, "/") + 1, Len(before))

\* checkReplace with the comparison of the organisation left out
checkReplaceShapeOnly(replace, tfProviderRepoName) ==
    LET c == Cut(replace.New.Path, <<"/">> \o tfProviderRepoName)
    IN  IF ~c.found \/ (c.after # <<>> /\ ~versionSuffixMatchString(c.after))
        THEN ErrIncorrectRepo
        ELSE None

\* the validation of one replace directive that replaces the upstream
checkReplace(replace, tfProviderRepoName) ==
    LET c == Cut(replace.New.Path, <<"/">> \o tfProviderRepoName)
    IN  IF ~c.found \/ (c.after # <<>> /\ ~versionSuffixMatchString(c.after))
        THEN ErrIncorrectRepo
        ELSE IF forkOrg(c.before) # Pulumi
        THEN ErrForkOrg
        ELSE None

\* the loop over goMod.Replace: directives that do not replace the
\* upstream are skipped; the first that does is validated and ends the loop
findFork(goMod, upstream, tfProviderRepoName) ==
    LET hits == {i \in 1..Len(goMod.Replace) :
                    goMod.Replace[i].Old.Path = upstream.Path}
    IN  IF hits = {}
        THEN [err |-> None, fork |-> NoFork]
        ELSE LET first == CHOOSE i \in hits : \A j \in hits : i <= j
                 e == checkReplace(goMod.Replace[first], tfProviderRepoName)
             IN  IF e # None
                 THEN [err |-> e, fork |-> NoFork]
                 ELSE [err |-> None, fork |-> <<goMod.Replace[first]>>]

\* composeKind with the shim transform left out
composeKindWithoutShim(fork, shimmed) ==
    IF fork = NoFork THEN Plain ELSE Forked

\* the composition of out.Kind from fork and shimmed
composeKind(fork, shimmed) ==
    LET kind == IF fork = NoFork THEN Plain ELSE Forked
    IN  IF shimmed THEN RepoKindShimmed(kind) ELSE kind

\* func repoKind(ctx, path, providerName string) (*GoMod, error)
repoKind(fs, providerName) ==
    IF fs.outer.status # "ok"
    THEN RepoKindError(ErrGoMod)
    ELSE LET tfProviderRepoName == TerraformProviderPrefix \o providerName
             up == lookupUpstream(fs, tfProviderRepoName)
         IN  IF up.err # None
             THEN RepoKindError(up.err)
             ELSE LET f == findFork(fs.outer.file, up.mod, tfProviderRepoName)
                  IN  IF f.err # None
                      THEN RepoKindError(f.err)
                      ELSE [err      |-> None,
                            Kind     |-> composeKind(f.fork, up.shimmed),
                            Upstream |-> up.mod,
                            Fork     |-> f.fork]

\* ------------------------------------------------------------------------
\* semver.NewVersion and (*Version).LessThan, as getExpectedTarget uses them
\* ------------------------------------------------------------------------
DigitChars == <<"0","1","2","3","4","5","6","7","8","9">>
\* the characters of a pre-release identifier, in ASCII order
IdentChars ==
    <<"-","0","1","2","3","4","5","6","7","8","9",
      "a","b","c","d","e","f","g","h","i","j","k","l","m",
      "n","o","p","q","r","s","t","u","v","w","x","y","z">>

IsDigit(c) == \E k \in 1..Len(DigitChars) : DigitChars[k] = c
DigitValue(c) == (CHOOSE k \in 1..Len(DigitChars) : DigitChars[k] = c) - 1
IsIdentChar(c) == \E k \in 1..Len(IdentChars) : IdentChars[k] = c
CharCode(c) == CHOOSE k \in 1..Len(IdentChars) : IdentChars[k] = c

IsNumeral(d) == Len(d) >= 1 /\ \A k \in 1..Len(d) : IsDigit(d[k])

\* strconv.ParseUint of a numeral
RECURSIVE ParseUint(_)
ParseUint(d) ==
    IF d = <<>> THEN 0
    ELSE 10 * ParseUint(SubSeq(d, 1, Len(d) - 1)) + DigitValue(d[Len(d)])

\* strings.Split(s, sep) for a one-character separator
RECURSIVE Split(_, _)
Split(s, sep) ==
    LET i == Index(s, <<sep>>)
    IN  IF i = 0 THEN <<s>>
        ELSE <<SubSeq(s, 1, i - 1)>> \o Split(SubSeq(s, i + 1, Len(s)), sep)

NoVersion == [Major |-> 0, Minor |-> 0, Patch |-> 0, Pre |-> <<>>]

\* semver.NewVersion(s): an optional "v", one to three dot-separated
\* numerals (missing ones are 0) and an optional "-" pre-release of
\* dot-separated identifiers; anything else is an error
NewVersion(s) ==
    LET body  == IF s # <<>> /\ s[1] = "v" THEN Tail(s) ELSE s
        dash  == Index(body, <<"-">>)
        core  == IF dash = 0 THEN body ELSE SubSeq(body, 1, dash - 1)
        pre   == IF dash = 0 THEN <<>> ELSE SubSeq(body, dash + 1, Len(body))
        parts == Split(core, ".")
        ids   == Split(pre, ".")
        ok    == /\ Len(parts) <= 3
                 /\ \A k \in 1..Len(parts) : IsNumeral(parts[k])
                 /\ dash # 0 =>
                       \A k \in 1..Len(ids) :
                           /\ ids[k] # <<>>
                           /\ \A n \in 1..Len(ids[k]) : IsIdentChar(ids[k][n])
    IN  IF ~ok THEN [err |-> TRUE, v |-> NoVersion]
        ELSE [err |-> FALSE,
              v |-> [Major |-> ParseUint(parts[1]),
                     Minor |-> IF Len(parts) >= 2 THEN ParseUint(parts[2]) ELSE 0,
                     Patch |-> IF Len(parts) >= 3 THEN ParseUint(parts[3]) ELSE 0,
                     Pre   |-> pre]]

\* a < b as strings (byte order)
RECURSIVE StringLess(_, _)
StringLess(a, b) ==
    IF b = <<>> THEN FALSE
    ELSE IF a = <<>> THEN TRUE
    ELSE IF a[1] # b[1] THEN CharCode(a[1]) < CharCode(b[1])
    ELSE StringLess(Tail(a), Tail(b))

\* one pre-release identifier below another: numerals compare as numbers
\* and are below every other identifier, the others compare as strings
IdentLess(a, b) ==
    IF IsNumeral(a) /\ IsNumeral(b) THEN ParseUint(a) < ParseUint(b)
    ELSE IF IsNumeral(a) THEN TRUE
    ELSE IF IsNumeral(b) THEN FALSE
    ELSE StringLess(a, b)

\* identifier lists: the first difference decides, a proper prefix is below
RECURSIVE IdentsLess(_, _)
IdentsLess(a, b) ==
    IF b = <<>> THEN FALSE
    ELSE IF a = <<>> THEN TRUE
    ELSE IF a[1] # b[1] THEN IdentLess(a[1], b[1])
    ELSE IdentsLess(Tail(a), Tail(b))

\* a version with a pre-release is below the same version without one
PreLess(a, b) ==
    IF a = <<>> THEN FALSE
    ELSE IF b = <<>> THEN TRUE
    ELSE IdentsLess(Split(a, "."), Split(b, "."))

\* func (v *Version) LessThan(o *Version) bool
LessThan(v, o) ==
    IF v.Major # o.Major THEN v.Major < o.Major
    ELSE IF v.Minor # o.Minor THEN v.Minor < o.Minor
    ELSE IF v.Patch # o.Patch THEN v.Patch < o.Patch
    ELSE PreLess(v.Pre, o.Pre)

\* ------------------------------------------------------------------------
\* getExpectedTarget: the version resolver
\* ------------------------------------------------------------------------
\* "Upgrade terraform-provider-"
UpgradePrefix ==
    <<"U","p","g","r","a","d","e"," ","t","e","r","r","a","f","o","r","m",
      "-","p","r","o","v","i","d","e","r","-">>
\* " to "
ToSeparator == <<" ","t","o"," ">>

ErrGhRun == "gh issue list failed"
ErrGhJson == "json.Unmarshal failed"
ErrNoUpgrade == "no upgrade found"

\* the body of the loop over titles: the version a title contributes
titleVersion(title) ==
    LET c1 == Cut(title, UpgradePrefix)
    IN  IF ~c1.found THEN [err |-> TRUE, v |-> NoVersion]
        ELSE LET c2 == Cut(c1.after, ToSeparator)
             IN  IF ~c2.found THEN [err |-> TRUE, v |-> NoVersion]
                 ELSE NewVersion(c2.after)

\* the slice versions after the loop over titles
RECURSIVE collectVersions(_)
collectVersions(titles) ==
    IF titles = <<>> THEN <<>>
    ELSE LET t == titleVersion(Head(titles))
         IN  (IF t.err THEN <<>> ELSE <<t.v>>) \o collectVersions(Tail(titles))

\* the less function of sort.Slice with its arguments the other way round
sortLessAscending(vi, vj) == LessThan(vi, vj)

\* the less function given to sort.Slice: versions[j].LessThan(versions[i])
sortLess(vi, vj) == LessThan(vj, vi)

\* sort.Slice on a slice of at most 12 elements is an insertion sort:
\* element i moves down while it is less than its predecessor
RECURSIVE moveDown(_, _)
moveDown(data, j) ==
    IF j > 1 /\ sortLess(data[j], data[j - 1])
    THEN moveDown([data EXCEPT ![j] = data[j - 1], ![j - 1] = data[j]], j - 1)
    ELSE data

RECURSIVE sortSliceFrom(_, _)
sortSliceFrom(data, i) ==
    IF i > Len(data) THEN data ELSE sortSliceFrom(moveDown(data, i), i + 1)

sortSlice(data) == sortSliceFrom(data, 2)

\* func getExpectedTarget(ctx, name string) (*semver.Version, error)
\* gh is the outcome of running `gh issue list` and decoding its output
getExpectedTarget(gh, titles, name) ==
    IF gh = "run error" THEN [err |-> ErrGhRun, v |-> NoVersion]
    ELSE IF gh = "bad json" THEN [err |-> ErrGhJson, v |-> NoVersion]
    ELSE LET versions == collectVersions(titles)
         IN  IF Len(versions) = 0
             THEN [err |-> ErrNoUpgrade, v |-> NoVersion]
             ELSE [err |-> None, v |-> sortSlice(versions)[1]]

\* ------------------------------------------------------------------------
\* pullDefault: the default-branch discovery
\* ------------------------------------------------------------------------
Tab == "\t"
\* "refs/heads/"
RefsHeads == <<"r","e","f","s","/","h","e","a","d","s","/">>
Main == <<"m","a","i","n">>
Master == <<"m","a","s","t","e","r">>

ErrGatherBranches == "gathering branches"
ErrNoDefaultBranch == "could not find 'main' or 'master' branch"
ErrCheckout == "checkout out"
ErrPull == "fast-forwarding"

IsSpace(c) == c \in {" ", Tab, "\r", "\n"}

\* strings.TrimSpace(s)
RECURSIVE TrimSpace(_)
TrimSpace(s) ==
    IF s = <<>> THEN s
    ELSE IF IsSpace(s[1]) THEN TrimSpace(Tail(s))
    ELSE IF IsSpace(s[Len(s)]) THEN TrimSpace(SubSeq(s, 1, Len(s) - 1))
    ELSE s

\* the filter pullDefault gives to runGitCommand: the branch of every
\* non-empty line of `git ls-remote --heads`; contract.Assert(found) panics
\* on a line without a tab
RECURSIVE parseHeads(_)
parseHeads(lines) ==
    IF lines = <<>> THEN [panic |-> FALSE, branches |-> <<>>]
    ELSE LET line == TrimSpace(Head(lines))
             rest == parseHeads(Tail(lines))
             c    == Cut(line, <<Tab>>)
         IN  IF line = <<>> THEN rest
             ELSE IF ~c.found THEN [panic |-> TRUE, branches |-> <<>>]
             ELSE [panic    |-> rest.panic,
                   branches |-> IF rest.panic THEN <<>>
                                ELSE <<TrimPrefix(c.after, RefsHeads)>> \o rest.branches]

\* the loop over branches stopping at the first of "main" and "master"
RECURSIVE chooseBranchFirstFound(_, _)
chooseBranchFirstFound(branches, targetBranch) ==
    IF branches = <<>> THEN targetBranch
    ELSE IF Head(branches) = Main THEN Main
    ELSE IF Head(branches) = Master THEN Master
    ELSE chooseBranchFirstFound(Tail(branches), targetBranch)

\* the loop over branches: "main" ends it, "master" is remembered
RECURSIVE chooseBranch(_, _)
chooseBranch(branches, targetBranch) ==
    IF branches = <<>> THEN targetBranch
    ELSE IF Head(branches) = Main THEN Main
    ELSE IF Head(branches) = Master THEN chooseBranch(Tail(branches), Master)
    ELSE chooseBranch(Tail(branches), targetBranch)

\* a git command line, as runGitCommand is given it
GitCmd(args) == <<"git">> \o args

\* ------------------------------------------------------------------------
\* State
\* ------------------------------------------------------------------------
VARIABLES
    mpPath,     \* modPathWithoutVersion: the argument
    mpOut,      \* modPathWithoutVersion: the returned string, <<None>> before
    rkFs,       \* repoKind: the files under <path>/provider
    rkOut,      \* repoKind: the returned (*GoMod, error)
    rkDone,     \* repoKind has returned
    etGh,       \* getExpectedTarget: how `gh issue list` ended
    etTitles,   \* getExpectedTarget: the titles it printed
    etOut,      \* getExpectedTarget: the returned (*Version, error)
    etDone,     \* getExpectedTarget has returned
    pdRemote,   \* pullDefault: how `git ls-remote --heads` ends and its lines
    pdPc,       \* pullDefault: the command it runs next, or "done"
    pdTarget,   \* pullDefault: targetBranch
    pdCmds,     \* pullDefault: the git commands it has run, in order
    pdOut,      \* pullDefault: the returned (string, error)
    wfJob,      \* UpgradeProvider: the job step.RunJob is running
    wfSteps,    \* UpgradeProvider: the steps that job was given
    wfNext,     \* UpgradeProvider: the position of its next step
    wfFailed,   \* UpgradeProvider: a step of the job returned an error
    wfLog,      \* UpgradeProvider: the steps attempted, with their outcomes
    wfJobs,     \* UpgradeProvider: the jobs that returned, with their ok
    wfCells,    \* UpgradeProvider: the variables its steps share
    wfRet,      \* UpgradeProvider: what it returned
    wfWorld,    \* UpgradeProvider: what its commands did outside the program
    mnErr,      \* main: the error UpgradeProvider returned to cmd's Run
    mnPc,       \* main: the statement Run executes next
    mnOut,      \* main: the lines Run printed
    mnExit      \* main: the status os.Exit was called with, <<>> before

mpVars == <<mpPath, mpOut>>
rkVars == <<rkFs, rkOut, rkDone>>
etVars == <<etGh, etTitles, etOut, etDone>>
pdVars == <<pdRemote, pdPc, pdTarget, pdCmds, pdOut>>
wfVars ==
    <<wfJob, wfSteps, wfNext, wfFailed, wfLog, wfJobs, wfCells, wfRet, wfWorld>>
mnVars == <<mnErr, mnPc, mnOut, mnExit>>
vars ==
    <<mpPath, mpOut, rkFs, rkOut, rkDone, etGh, etTitles, etOut, etDone,
      pdRemote, pdPc, pdTarget, pdCmds, pdOut,
      wfJob, wfSteps, wfNext, wfFailed, wfLog, wfJobs, wfCells, wfRet,
      wfWorld, mnErr, mnPc, mnOut, mnExit>>

\* The values a function's variables hold in the specifications of the
\* other functions, where it is not called.
NotReturned == <<None>>
ModPathIdle == mpPath = <<>> /\ mpOut = NotReturned

NoFileSystem ==
    [outer |-> NoFile("unreadable"), shimStat |-> "notexist",
     shim |-> NoFile("unreadable")]
RepoKindIdle ==
    rkFs = NoFileSystem /\ rkOut = RepoKindError(NotCalled) /\ rkDone = TRUE

\* what UpgradeProvider has returned
Running == "running"
ReturnedNil == "nil"
ErrHandled == "ErrHandled"
Panicked == "panic"
NoJob == "no job"

\* var path string; var target *semver.Version; var goMod *GoMod;
\* var upstreamPath string; var previousUpstreamVersion *semver.Version;
\* var forkedProviderUpstreamCommit string; var targetSHA string
NoCells ==
    [path |-> "", target |-> <<>>, goMod |-> <<>>, upstreamPath |-> "",
     previousUpstreamVersion |-> <<>>, forkedProviderUpstreamCommit |-> <<>>,
     targetSHA |-> <<>>]

\* What the commands of the steps have done so far outside the program:
\* whether the run's context is cancelled; the local branches and HEAD of
\* the upstream checkout; what HEAD was when `git merge` and when
\* `git rev-parse HEAD` ran; the arguments `go get` and `go mod edit
\* -replace` were run with; the variables as they were when the slice
\* steps was built.  <<>> stands for "not yet".
NoWorld ==
    [cancelled |-> FALSE, branches |-> {}, head |-> <<>>, mergeHead |-> <<>>,
     recordHead |-> <<>>, goGetRef |-> <<>>, replaceArg |-> <<>>,
     built |-> <<>>]

\* cmd's Run before UpgradeProvider has returned to it
MainIdle == mnErr = <<>> /\ mnPc = "idle" /\ mnOut = <<>> /\ mnExit = <<>>

WorkflowIdle ==
    /\ wfWorld = NoWorld
    /\ wfJob = NoJob
    /\ wfSteps = <<>>
    /\ wfNext = 1
    /\ wfFailed = FALSE
    /\ wfLog = <<>>
    /\ wfJobs = <<>>
    /\ wfCells = NoCells
    /\ wfRet = NotCalled

PullDefaultIdle ==
    /\ pdRemote = [ok |-> FALSE, lines |-> <<>>]
    /\ pdPc = "done"
    /\ pdTarget = <<>>
    /\ pdCmds = <<>>
    /\ pdOut = [err |-> NotCalled, branch |-> <<>>]

TargetIdle ==
    /\ etGh = "ok"
    /\ etTitles = <<>>
    /\ etOut = [err |-> NotCalled, v |-> NoVersion]
    /\ etDone = TRUE

\* ------------------------------------------------------------------------
\* Specification SpecModPath: modPathWithoutVersion applied to bounded inputs
\* ------------------------------------------------------------------------

\* "host/org/repo"
PathHostOrgRepo == <<"h","o","s","t","/","o","r","g","/","r","e","p","o">>
\* "h/v2/r": a version-like segment that is not at the end
PathInnerVersion == <<"h","/","v","2","/","r">>

ModPathBases == {PathHostOrgRepo, PathInnerVersion}
SuffixChars == {"/", "v", "0", "1", "2", "9"}
ModPathInputs ==
    {b \o t : b \in ModPathBases, t \in SeqsUpTo(SuffixChars, MaxSuffixLen)}

InitModPath ==
    /\ mpPath \in ModPathInputs
    /\ mpOut = NotReturned
    /\ RepoKindIdle
    /\ TargetIdle
    /\ PullDefaultIdle
    /\ WorkflowIdle
    /\ MainIdle

StripVersion ==
    /\ mpOut = NotReturned
    /\ mpPath # <<>>
    /\ mpOut' = modPathWithoutVersion(mpPath)
    /\ UNCHANGED <<mpPath, rkVars, etVars, pdVars, wfVars, mnVars>>

NextModPath == StripVersion

SpecModPath == InitModPath /\ [][NextModPath]_vars

\* ------------------------------------------------------------------------
\* Specification SpecRepoKind: repoKind applied to bounded file systems
\* ------------------------------------------------------------------------

\* the provider name passed to repoKind: "foo"
ProviderName == <<"f","o","o">>

GitHub == <<"g","i","t","h","u","b",".","c","o","m","/">>
OrgHashicorp == <<"h","a","s","h","i","c","o","r","p">>
OrgEvil == <<"e","v","i","l">>
OrgNotPulumi == <<"n","o","t","p","u","l","u","m","i">>
RepoFoo == TerraformProviderPrefix \o ProviderName
ModPath(org, repo, tail) == GitHub \o org \o <<"/">> \o repo \o tail

\* github.com/hashicorp/terraform-provider-foo
PathUpstream == ModPath(OrgHashicorp, RepoFoo, <<>>)
\* github.com/hashicorp/terraform-provider-foo/v3
PathUpstreamV3 == ModPath(OrgHashicorp, RepoFoo, <<"/","v","3">>)
\* github.com/hashicorp/terraform-provider-foobar
PathFoobar == ModPath(OrgHashicorp, RepoFoo \o <<"b","a","r">>, <<>>)

\* github.com/pulumi/terraform-provider-foo/v4
NewPulumiV4 == ModPath(Pulumi, RepoFoo, <<"/","v","4">>)
\* github.com/pulumi/terraform-provider-foo
NewPulumi == ModPath(Pulumi, RepoFoo, <<>>)
\* github.com/evil/terraform-provider-foo/v4
NewEvilV4 == ModPath(OrgEvil, RepoFoo, <<"/","v","4">>)
\* github.com/notpulumi/terraform-provider-foo
NewNotPulumi == ModPath(OrgNotPulumi, RepoFoo, <<>>)
\* github.com/pulumi/terraform-provider-foo-extra/v2
NewExtraV2 == ModPath(Pulumi, RepoFoo \o <<"-","e","x","t","r","a">>, <<"/","v","2">>)
\* github.com/pulumi/terraform-provider-foobar
NewFoobar == ModPath(Pulumi, RepoFoo \o <<"b","a","r">>, <<>>)
\* github.com/pulumi/other
NewOther == ModPath(Pulumi, <<"o","t","h","e","r">>, <<>>)

Require(path, version) == [Path |-> path, Version |-> version]
Replace(old, new) == [Old |-> [Path |-> old], New |-> [Path |-> new]]

\* the require entries of the outer manifest and of the shim's manifest
OuterRequires ==
    {Require(PathUpstream, "v1.0.0"), Require(PathUpstreamV3, "v3.0.0"),
     Require(PathFoobar, "v1.0.0")}
ShimRequires ==
    {Require(PathUpstream, "v1.1.0"), Require(PathUpstreamV3, "v3.0.0"),
     Require(PathFoobar, "v1.0.0")}
\* the replace directives of the outer manifest
Replaces ==
    {Replace(PathUpstream, NewPulumiV4), Replace(PathUpstream, NewPulumi),
     Replace(PathUpstream, NewEvilV4), Replace(PathUpstream, NewNotPulumi),
     Replace(PathUpstream, NewExtraV2), Replace(PathUpstream, NewFoobar),
     Replace(PathUpstreamV3, NewPulumiV4), Replace(PathFoobar, NewOther)}

ShimFiles ==
    {NoFile("unreadable"), NoFile("unparsable")}
    \cup {File("ok", rq, <<>>) : rq \in ListsUpTo(ShimRequires, MaxShimRequire)}

\* The files repoKind reads: the outer manifest (unreadable, unparsable or
\* parsed), what os.Stat(shimDir) answers, and the shim's manifest when it
\* answers nil.
IsFileSystem(fs) ==
    \E o \in {"ok", "unreadable", "unparsable"},
       rq \in ListsUpTo(OuterRequires, MaxRequire),
       rp \in ListsUpTo(Replaces, MaxReplace),
       st \in {"ok", "notexist", "error"},
       sh \in ShimFiles :
        /\ o # "ok" => rq = <<>> /\ rp = <<>>
        /\ st # "ok" => sh = NoFile("unreadable")
        /\ fs = [outer |-> File(o, rq, rp), shimStat |-> st, shim |-> sh]

InitRepoKind ==
    /\ IsFileSystem(rkFs)
    /\ rkOut = RepoKindError(NotCalled)
    /\ rkDone = FALSE
    /\ ModPathIdle
    /\ TargetIdle
    /\ PullDefaultIdle
    /\ WorkflowIdle
    /\ MainIdle

Classify ==
    /\ ~rkDone
    /\ rkOut' = repoKind(rkFs, ProviderName)
    /\ rkDone' = TRUE
    /\ UNCHANGED <<rkFs, mpVars, etVars, pdVars, wfVars, mnVars>>

NextRepoKind == Classify

SpecRepoKind == InitRepoKind /\ [][NextRepoKind]_vars

\* ------------------------------------------------------------------------
\* Specification SpecTarget: getExpectedTarget applied to bounded title lists
\* ------------------------------------------------------------------------
\* the name UpgradeProvider is called with: "pulumi-foo"
RepoName == <<"p","u","l","u","m","i","-">> \o ProviderName

UpgradeTitle(provider, version) ==
    UpgradePrefix \o provider \o ToSeparator \o version

IssueTitles ==
    {UpgradeTitle(ProviderName, <<"1",".","2",".","0">>),
     UpgradeTitle(ProviderName, <<"1",".","3",".","0">>),
     UpgradeTitle(ProviderName, <<"1",".","1","0",".","0">>),
     UpgradeTitle(ProviderName, <<"1",".","1","0",".","0","-","r","c","1">>),
     UpgradeTitle(ProviderName, <<"v","2">>),
     UpgradeTitle(ProviderName, <<"l","a","t","e","s","t">>),
     UpgradeTitle(<<"b","a","r">>, <<"9",".","9",".","9">>),
     <<"R","e",":"," ">> \o UpgradeTitle(ProviderName, <<"8",".","0",".","0">>),
     <<"u","n","r","e","l","a","t","e","d"," ","i","s","s","u","e">>}

InitTarget ==
    /\ etGh \in {"ok", "run error", "bad json"}
    /\ etTitles \in SeqsUpTo(IssueTitles, MaxTitles)
    /\ etGh # "ok" => etTitles = <<>>
    /\ etOut = [err |-> NotCalled, v |-> NoVersion]
    /\ etDone = FALSE
    /\ ModPathIdle
    /\ RepoKindIdle
    /\ PullDefaultIdle
    /\ WorkflowIdle
    /\ MainIdle

ResolveTarget ==
    /\ ~etDone
    /\ etOut' = getExpectedTarget(etGh, etTitles, RepoName)
    /\ etDone' = TRUE
    /\ UNCHANGED <<etGh, etTitles, mpVars, rkVars, pdVars, wfVars, mnVars>>

NextTarget == ResolveTarget

SpecTarget == InitTarget /\ [][NextTarget]_vars

\* ------------------------------------------------------------------------
\* Specification SpecPullDefault: pullDefault on bounded remotes
\* ------------------------------------------------------------------------
\* the branches a remote may have
RemoteBranches ==
    {Main, Master, <<"d","e","v">>,
     <<"m","a","i","n","t","e","n","a","n","c","e">>,
     <<"r","e","l","e","a","s","e","/">> \o Master}

\* a line of `git ls-remote --heads`: "<sha>\t<ref>"
HeadLine(branch) == <<"a","1","f","9">> \o <<Tab>> \o RefsHeads \o branch

\* the output split at "\n": a line per branch and the empty text after
\* the last newline
RECURSIVE HeadLines(_)
HeadLines(branches) ==
    IF branches = <<>> THEN <<<<>>>>
    ELSE <<HeadLine(Head(branches))>> \o HeadLines(Tail(branches))

InitPullDefault ==
    /\ \E ok \in BOOLEAN, bs \in ListsUpTo(RemoteBranches, MaxBranches) :
          /\ ~ok => bs = <<>>
          /\ pdRemote = [ok |-> ok, lines |-> IF ok THEN HeadLines(bs) ELSE <<>>]
    /\ pdPc = "ls-remote"
    /\ pdTarget = <<>>
    /\ pdCmds = <<>>
    /\ pdOut = [err |-> NotCalled, branch |-> <<>>]
    /\ ModPathIdle
    /\ RepoKindIdle
    /\ TargetIdle
    /\ WorkflowIdle
    /\ MainIdle

PullDefaultReturn(err, branch) ==
    /\ pdPc' = "done"
    /\ pdOut' = [err |-> err, branch |-> branch]

\* runGitCommand(ctx, filter, "ls-remote", "--heads", remote) and the
\* choice of targetBranch
ListBranches ==
    /\ pdPc = "ls-remote"
    /\ pdCmds' = Append(pdCmds, GitCmd(<<"ls-remote", "--heads", "origin">>))
    /\ IF ~pdRemote.ok
       THEN PullDefaultReturn(ErrGatherBranches, <<>>) /\ UNCHANGED pdTarget
       ELSE LET heads == parseHeads(pdRemote.lines)
                targetBranch == chooseBranch(heads.branches, <<>>)
            IN  IF heads.panic
                THEN /\ pdPc' = "panic"
                     /\ UNCHANGED <<pdTarget, pdOut>>
                ELSE /\ pdTarget' = targetBranch
                     /\ IF targetBranch = <<>>
                        THEN PullDefaultReturn(ErrNoDefaultBranch, <<>>)
                        ELSE pdPc' = "checkout" /\ UNCHANGED pdOut
    /\ UNCHANGED <<pdRemote, mpVars, rkVars, etVars, wfVars, mnVars>>

\* runGitCommand(ctx, noOp, "checkout", targetBranch)
CheckoutBranch ==
    /\ pdPc = "checkout"
    /\ pdCmds' = Append(pdCmds, GitCmd(<<"checkout", pdTarget>>))
    /\ \E ok \in BOOLEAN :
          IF ok THEN pdPc' = "pull" /\ UNCHANGED pdOut
          ELSE PullDefaultReturn(ErrCheckout, <<>>)
    /\ UNCHANGED <<pdRemote, pdTarget, mpVars, rkVars, etVars, wfVars, mnVars>>

\* runGitCommand(ctx, noOp, "pull", remote)
PullRemote ==
    /\ pdPc = "pull"
    /\ pdCmds' = Append(pdCmds, GitCmd(<<"pull", "origin">>))
    /\ \E ok \in BOOLEAN :
          IF ok THEN PullDefaultReturn(None, pdTarget)
          ELSE PullDefaultReturn(ErrPull, <<>>)
    /\ UNCHANGED <<pdRemote, pdTarget, mpVars, rkVars, etVars, wfVars, mnVars>>

NextPullDefault == ListBranches \/ CheckoutBranch \/ PullRemote

SpecPullDefault == InitPullDefault /\ [][NextPullDefault]_vars

\* ------------------------------------------------------------------------
\* Specification Spec: UpgradeProvider, its three jobs and their steps
\* ------------------------------------------------------------------------
DiscoveryJob == "Discovering Repository"
SyncJob == "Upgrading Forked Provider"
UpgradeJob == "Upgrading Provider"

\* the steps of the jobs, by name (a step.Cmd by its command and line)
StepEnsureProviderRepo == "Ensure provider repo"
StepSetDefaultBranch == "Set default branch"
StepUpgradeVersion == "Upgrade version"
StepRepoKind == "Repo kind"

StepEnsureUpstreamRepo == "ensure upstream repo"
StepEnsurePulumiRemote == "ensure pulumi remote"
StepGitFetchPulumi == "git fetch pulumi"
StepDiscoverPrevious == "discover previous upstream version"
StepCheckoutUpstream == "checkout upstream"
StepUpstreamBranch == "upstream branch"
StepMergeUpstream == "merge upstream branch"
StepGoBuild == "go build ."
StepPushUpstream == "push upstream"
StepGetHeadCommit == "get head commit"

StepEnsureBranch == "ensure branch"
StepGoGetBridge == "go get -u github.com/pulumi/pulumi-terraform-bridge/v3"
StepLookupTagSHA == "Lookup Tag SHA"
StepGoGetUpstream == "go get <upstream>@<ref>"
StepModEditReplace == "go mod edit -replace"
StepModTidyOuter == "go mod tidy (line 235)"
StepModTidy == "go mod tidy (line 240)"
StepPluginRm == "pulumi plugin rm --all --yes"
StepMakeTfgen == "make tfgen"
StepGitAddTfgen == "git add --all (line 243)"
StepCommitTfgen == "git commit -m 'make tfgen'"
StepMakeBuildSdks == "make build_sdks"
StepGitAddSdks == "git add --all (line 246)"
StepCommitSdks == "git commit -m 'make build_sdks'"
StepGitPush == "git push --set-upstream origin <branch>"

\* the steps given to step.RunJob("Discovering Repository", ...)
DiscoverySteps ==
    <<StepEnsureProviderRepo, StepSetDefaultBranch, StepUpgradeVersion, StepRepoKind>>

\* the steps given to step.RunJob("Upgrading Forked Provider", ...)
SyncSteps ==
    <<StepEnsureUpstreamRepo, StepEnsurePulumiRemote, StepGitFetchPulumi,
      StepDiscoverPrevious, StepCheckoutUpstream, StepUpstreamBranch,
      StepMergeUpstream, StepGoBuild, StepPushUpstream, StepGetHeadCommit>>

\* the steps of the upgrade job with no stage-all and commit after make tfgen
UpgradeStepsCommitOnce(kind) ==
    <<StepEnsureBranch, StepGoGetBridge>>
    \o (IF ~IsForked(kind) THEN <<StepLookupTagSHA>> ELSE <<>>)
    \o <<StepGoGetUpstream>>
    \o (IF IsForked(kind) THEN <<StepModEditReplace>> ELSE <<>>)
    \o (IF IsShimmed(kind) THEN <<StepModTidyOuter>> ELSE <<>>)
    \o <<StepModTidy, StepPluginRm, StepMakeTfgen, StepMakeBuildSdks,
         StepGitAddTfgen, StepCommitTfgen, StepGitAddSdks, StepCommitSdks,
         StepGitPush>>

\* the steps of the upgrade job with the replace directive never added
UpgradeStepsWithoutReplace(kind) ==
    <<StepEnsureBranch, StepGoGetBridge>>
    \o (IF ~IsForked(kind) THEN <<StepLookupTagSHA>> ELSE <<>>)
    \o <<StepGoGetUpstream>>
    \o (IF IsShimmed(kind) THEN <<StepModTidyOuter>> ELSE <<>>)
    \o <<StepModTidy, StepPluginRm, StepMakeTfgen, StepGitAddTfgen,
         StepCommitTfgen, StepMakeBuildSdks, StepGitAddSdks, StepCommitSdks,
         StepGitPush>>

\* the slice steps and what RunJob("Upgrading Provider", ...) appends to it
UpgradeSteps(kind) ==
    <<StepEnsureBranch, StepGoGetBridge>>
    \o (IF ~IsForked(kind) THEN <<StepLookupTagSHA>> ELSE <<>>)
    \o <<StepGoGetUpstream>>
    \o (IF IsForked(kind) THEN <<StepModEditReplace>> ELSE <<>>)
    \o (IF IsShimmed(kind) THEN <<StepModTidyOuter>> ELSE <<>>)
    \o <<StepModTidy, StepPluginRm, StepMakeTfgen, StepGitAddTfgen,
         StepCommitTfgen, StepMakeBuildSdks, StepGitAddSdks, StepCommitSdks,
         StepGitPush>>

\* strconv.Itoa for a natural number
RECURSIVE Itoa(_)
Itoa(n) ==
    IF n < 10 THEN <<DigitChars[n + 1]>>
    ELSE Itoa(n \div 10) \o <<DigitChars[(n % 10) + 1]>>

\* func (v Version) String() string
VersionString(v) ==
    Itoa(v.Major) \o <<".">> \o Itoa(v.Minor) \o <<".">> \o Itoa(v.Patch)
    \o (IF v.Pre = <<>> THEN <<>> ELSE <<"-">> \o v.Pre)

\* "refs/tags/v"
RefsTagsV == <<"r","e","f","s","/","t","a","g","s","/","v">>

\* the filter of "Lookup Tag SHA" over the lines of `git ls-remote --tags`:
\* contract.Assertf panics on a line that is not two tab-separated parts
RECURSIVE lookupTagSHA(_, _)
lookupTagSHA(lines, target) ==
    IF lines = <<>> THEN [outcome |-> "fail", sha |-> <<>>]
    ELSE LET parts == Split(Head(lines), Tab)
         IN  IF Len(parts) # 2 THEN [outcome |-> "panic", sha |-> <<>>]
             ELSE IF parts[2] = RefsTagsV \o VersionString(target)
             THEN [outcome |-> "ok", sha |-> parts[1]]
             ELSE lookupTagSHA(Tail(lines), target)

\* what the steps can meet outside the program ------------------------------
\* the heads of origin
WorkflowRemotes ==
    {HeadLines(<<Master, Main>>), HeadLines(<<Master>>), HeadLines(<<<<"d","e","v">>>>)}

\* the open issues of pulumi-bot
WorkflowTitles ==
    {<<>>,
     <<UpgradeTitle(ProviderName, <<"1",".","2",".","0">>),
       UpgradeTitle(ProviderName, <<"1",".","3",".","0">>),
       <<"u","n","r","e","l","a","t","e","d"," ","i","s","s","u","e">>>>,
     <<UpgradeTitle(ProviderName, <<"1",".","1","0",".","0">>)>>}

\* the manifests of the provider repository: plain, forked, shimmed, forked
\* and shimmed, a fork of another organisation, an unreadable go.mod
WorkflowFileSystems ==
    LET req   == <<Require(PathUpstream, "v1.0.0")>>
        fork  == <<Replace(PathUpstream, NewPulumiV4)>>
        evil  == <<Replace(PathUpstream, NewEvilV4)>>
        shim  == File("ok", <<Require(PathUpstream, "v1.1.0")>>, <<>>)
        none  == NoFile("unreadable")
    IN  {[outer |-> File("ok", req, <<>>), shimStat |-> "notexist", shim |-> none],
         [outer |-> File("ok", req, fork), shimStat |-> "notexist", shim |-> none],
         [outer |-> File("ok", <<>>, <<>>), shimStat |-> "ok", shim |-> shim],
         [outer |-> File("ok", req, fork), shimStat |-> "ok", shim |-> shim],
         [outer |-> File("ok", req, evil), shimStat |-> "notexist", shim |-> none],
         [outer |-> none, shimStat |-> "notexist", shim |-> none]}

\* the tags of the upstream repository, as `git ls-remote --tags` prints
\* them: a line per tag and the empty text after the last newline
TagLine(sha, version) == sha \o <<Tab>> \o RefsTagsV \o version
WorkflowTags ==
    {<<TagLine(<<"a","1","f","9">>, <<"1",".","2",".","0">>),
       TagLine(<<"b","7","c","2">>, <<"1",".","3",".","0">>), <<>>>>,
     <<TagLine(<<"a","1","f","9">>, <<"1",".","2",".","0">>), <<>>>>}

\* the revision `git rev-parse HEAD` prints in the upstream checkout
HeadCommit == <<"c","0","d","e">>

\* the outcomes of the steps ---------------------------------------------
\* A step's outcome is "ok" (its function returned a nil error), "fail"
\* (it returned an error) or "panic" (it did not return); with "ok" the
\* cells hold what the step and its AssignTo wrote.
Ok(c) == [outcome |-> "ok", cells |-> c]
Fail(c) == [outcome |-> "fail", cells |-> c]
Panic(c) == [outcome |-> "panic", cells |-> c]

\* a step that writes no cell: an external command that succeeds or fails
CmdResults(c) == {Ok(c), Fail(c)}

\* step.F("Ensure provider repo", ...).AssignTo(&path)
EnsureProviderRepoResults(c) ==
    {Ok([c EXCEPT !.path = "$GOPATH/src/github.com/pulumi/pulumi-foo"]), Fail(c)}

\* step.F("Set default branch", pullDefault).In(&path)
SetDefaultBranchResults(c) ==
    {Fail(c)}
    \cup {IF parseHeads(lines).panic THEN Panic(c)
          ELSE IF chooseBranch(parseHeads(lines).branches, <<>>) = <<>> THEN Fail(c)
          ELSE Ok(c) : lines \in WorkflowRemotes}

\* step.F("Upgrade version", ...): target, err = getExpectedTarget(ctx, name)
UpgradeVersionResults(c) ==
    {LET r == getExpectedTarget(gh, titles, RepoName)
     IN  IF r.err = None THEN Ok([c EXCEPT !.target = <<r.v>>])
         ELSE Fail([c EXCEPT !.target = <<>>]) :
        gh \in {"ok", "run error"}, titles \in WorkflowTitles}

\* step.F("Repo kind", ...): goMod, err = repoKind(ctx, path, providerName)
RepoKindResults(c) ==
    {LET r == repoKind(fs, TrimPrefix(RepoName, <<"p","u","l","u","m","i","-">>))
     IN  IF r.err = None THEN Ok([c EXCEPT !.goMod = <<r>>])
         ELSE Fail([c EXCEPT !.goMod = <<>>]) :
        fs \in WorkflowFileSystems}

\* step.F("ensure upstream repo", ...).AssignTo(&upstreamPath)
EnsureUpstreamRepoResults(c) ==
    {Ok([c EXCEPT !.upstreamPath =
            "$GOPATH/src/github.com/hashicorp/terraform-provider-foo"]),
     Fail(c)}

\* step.F("discover previous upstream version", ...): the greatest version
\* among the branches pulumi/upstream-v*, or the error "no version found"
DiscoverPreviousResults(c) ==
    {Ok([c EXCEPT !.previousUpstreamVersion =
            <<[Major |-> 1, Minor |-> 1, Patch |-> 0, Pre |-> <<>>]>>]),
     Fail(c)}

\* "get head commit" succeeding with nothing written to the variable
GetHeadCommitResultsEmpty(c) == {Ok(c), Fail(c)}

\* step.F("get head commit", ...).AssignTo(&forkedProviderUpstreamCommit)
GetHeadCommitResults(c) ==
    {Ok([c EXCEPT !.forkedProviderUpstreamCommit = HeadCommit]), Fail(c)}

\* step.F("Lookup Tag SHA", ...).AssignTo(&targetSHA)
LookupTagSHAResults(c) ==
    {Fail(c)}
    \cup {LET r == lookupTagSHA(lines, c.target[1])
          IN  IF r.outcome = "ok" THEN Ok([c EXCEPT !.targetSHA = r.sha])
              ELSE IF r.outcome = "panic" THEN Panic(c)
              ELSE Fail(c) : lines \in WorkflowTags}

\* The context the external commands of a step are created with: "ctx" for
\* exec.CommandContext(ctx, ...) and runGitCommand(ctx, ...), "background"
\* for exec.Command(...), "none" for a step that runs no command.
commandContext(label) ==
    IF label = StepGitFetchPulumi THEN "background"
    ELSE IF label = StepRepoKind THEN "none"
    ELSE "ctx"

\* The directory a step runs in: .In(&path) and .In(&upstreamPath) read the
\* variable when the step runs; providerPath and goModDir were computed from
\* path and the kind when the slice steps was built.
StepDir(label, c, built) ==
    IF label \in {StepSetDefaultBranch, StepEnsureBranch, StepMakeTfgen,
                  StepGitAddTfgen, StepCommitTfgen, StepMakeBuildSdks,
                  StepGitAddSdks, StepCommitSdks, StepGitPush}
    THEN [base |-> c.path, sub |-> ""]
    ELSE IF label \in {StepEnsurePulumiRemote, StepGitFetchPulumi,
                       StepDiscoverPrevious, StepCheckoutUpstream,
                       StepUpstreamBranch, StepMergeUpstream, StepGoBuild,
                       StepPushUpstream, StepGetHeadCommit}
    THEN [base |-> c.upstreamPath, sub |-> ""]
    ELSE IF label \in {StepGoGetBridge, StepModTidyOuter, StepModTidy}
    THEN [base |-> built[1].path, sub |-> "provider"]
    ELSE IF label \in {StepGoGetUpstream, StepModEditReplace}
    THEN [base |-> built[1].path,
          sub |-> IF IsShimmed(built[1].goMod[1].Kind) THEN "provider/shim"
                  ELSE "provider"]
    ELSE [base |-> ".", sub |-> ""]

\* the outcomes of a step whose command changes something outside the
\* program: the world after it when it succeeded and when it did not
InWorld(results, okWorld, otherWorld) ==
    {[outcome |-> r.outcome, cells |-> r.cells,
      world |-> IF r.outcome = "ok" THEN okWorld ELSE otherWorld] : r \in results}

\* "upstream-v" and "pulumi/upstream-v"
UpstreamV == <<"u","p","s","t","r","e","a","m","-","v">>
PulumiUpstreamV == <<"p","u","l","u","m","i","/">> \o UpstreamV

\* HEAD of a checkout: on a local branch, or detached at another ref
OnBranch(name) == [detached |-> FALSE, name |-> name]
DetachedAt(ref) == [detached |-> TRUE, name |-> ref]

\* "upstream-v" + target.String()
upstreamBranchName(c) == UpstreamV \o VersionString(c.target[1])

\* the local branches the upstream checkout can hold when "ensure upstream
\* repo" returns it: none of interest after a clone, or the branch of the
\* target left there by an earlier run
UpstreamCheckouts(c) == {{}, {upstreamBranchName(c)}}

\* step.F("ensure upstream repo", ...): the checkout that is found or cloned
EnsureUpstreamRepoOutcomes(c, w) ==
    UNION {InWorld(EnsureUpstreamRepoResults(c), [w EXCEPT !.branches = b], w) :
              b \in UpstreamCheckouts(c)}

\* step.F("checkout upstream", ...): git checkout pulumi/upstream-v<previous>
\* leaves HEAD detached at the remote-tracking branch
CheckoutUpstreamOutcomes(c, w) ==
    InWorld(CmdResults(c),
            [w EXCEPT !.head = <<DetachedAt(PulumiUpstreamV
                    \o VersionString(c.previousUpstreamVersion[1]))>>],
            w)

\* step.F("upstream branch", ...): `git branch` is listed; when no line is
\* the target branch it is created and checked out with `git checkout -b`;
\* when one is, the step returns "<target> already exists" and runs nothing
UpstreamBranchOutcomes(c, w) ==
    LET target == upstreamBranchName(c)
    IN  InWorld({Fail(c)}, w, w)
        \cup (IF target \notin w.branches
              THEN InWorld(CmdResults(c),
                           [w EXCEPT !.head = <<OnBranch(target)>>,
                                     !.branches = @ \cup {target}],
                           w)
              ELSE InWorld({Ok(c)}, w, w))

\* step.F("merge upstream branch", ...): git merge v<target> merges into
\* whatever HEAD is
MergeUpstreamOutcomes(c, w) ==
    InWorld(CmdResults(c), [w EXCEPT !.mergeHead = w.head], w)

\* step.F("get head commit", ...): git rev-parse HEAD prints the revision
\* of whatever HEAD is
GetHeadCommitOutcomes(c, w) ==
    InWorld(GetHeadCommitResults(c), [w EXCEPT !.recordHead = w.head], w)

\* step.Computed(f): the variables f reads are those of the moment the step
\* runs, not of the moment the slice steps was built
computedCells(built, atRun) == atRun

\* the closure of step.Computed never reading targetSHA
goGetRefTagOnly(c) == <<"v">> \o VersionString(c.target[1])

\* the closure given to step.Computed: target := "v" + target.String();
\* if targetSHA != "" { target = targetSHA }
goGetRef(c) ==
    IF c.targetSHA # <<>> THEN c.targetSHA
    ELSE <<"v">> \o VersionString(c.target[1])

\* go get <goMod.Upstream.Path>@<ref>
GoGetUpstreamOutcomes(c, w) ==
    LET seen == computedCells(w.built[1], c)
        arg  == [path |-> seen.goMod[1].Upstream.Path, ref |-> goGetRef(seen)]
        ran  == [w EXCEPT !.goGetRef = <<arg>>]
    IN  InWorld(CmdResults(c), ran, ran)

\* go mod edit -replace <Fork.Old.Path>=<Fork.New.Path>@<commit>: the
\* command and its arguments are made while the slice steps is built
ModEditReplaceOutcomes(c, w) ==
    LET seen == w.built[1]
        fork == seen.goMod[1].Fork[1]
        arg  == [old |-> fork.Old.Path, new |-> fork.New.Path,
                 rev |-> seen.forkedProviderUpstreamCommit]
        ran  == [w EXCEPT !.replaceArg = <<arg>>]
    IN  InWorld(CmdResults(c), ran, ran)

\* step.RunJob, one step of it: the next step of the running job is
\* attempted; a step that fails ends the job, the steps after it are not run.
\* The run's context may be cancelled while the step's command executes: a
\* command created with the context is killed and the step fails, as does
\* every such command started after the cancellation; a command created
\* without it runs on as if nothing had happened.
RunStep(job, label, results) ==
    /\ wfRet = Running
    /\ wfJob = job
    /\ ~wfFailed
    /\ wfNext <= Len(wfSteps)
    /\ wfSteps[wfNext] = label
    /\ \E r \in results, fires \in BOOLEAN :
          LET cc      == commandContext(label)
              fired   == fires /\ ~wfWorld.cancelled /\ cc # "none"
              killed  == cc = "ctx" /\ (wfWorld.cancelled \/ fired)
              outcome == IF killed THEN "fail" ELSE r.outcome
              world   == IF killed \/ "world" \notin DOMAIN r THEN wfWorld
                         ELSE r.world
          IN  /\ fires => fired
              /\ wfLog' = Append(wfLog,
                    [job |-> job, label |-> label, outcome |-> outcome,
                     dir |-> StepDir(label, wfCells, wfWorld.built),
                     signal |-> IF ~fired THEN "none"
                                ELSE IF cc = "ctx" THEN "delivered" ELSE "lost"])
              /\ wfCells' = IF killed THEN wfCells ELSE r.cells
              /\ wfWorld' = [world EXCEPT !.cancelled = @ \/ fired]
              /\ wfNext' = IF outcome = "ok" THEN wfNext + 1 ELSE wfNext
              /\ wfFailed' = (outcome = "fail")
              /\ wfRet' = IF outcome = "panic" THEN Panicked ELSE wfRet
    /\ UNCHANGED <<wfJob, wfSteps, wfJobs, mpVars, rkVars, etVars, pdVars, mnVars>>

\* step.RunJob has returned: every step ran, or one failed
JobOver(job) ==
    /\ wfRet = Running
    /\ wfJob = job
    /\ wfFailed \/ wfNext > Len(wfSteps)

\* return ErrHandled
ReturnErrHandled ==
    /\ wfRet' = ErrHandled
    /\ wfJob' = NoJob
    /\ UNCHANGED <<wfSteps, wfNext, wfFailed, wfWorld>>

\* the next job starts with its first step
StartJob(job, steps) ==
    /\ wfJob' = job
    /\ wfSteps' = steps
    /\ wfNext' = 1
    /\ UNCHANGED <<wfRet, wfFailed>>

\* the construction of the steps of the upgrade job: with a forked kind
\* contract.Assert(forkedProviderUpstreamCommit != "") panics on failure
BuildUpgradeJob ==
    LET kind == wfCells.goMod[1].Kind
    IN  /\ wfWorld' = [wfWorld EXCEPT !.built = <<wfCells>>]
        /\ IF IsForked(kind) /\ wfCells.forkedProviderUpstreamCommit = <<>>
           THEN /\ wfRet' = Panicked
                /\ wfJob' = NoJob
                /\ UNCHANGED <<wfSteps, wfNext, wfFailed>>
           ELSE StartJob(UpgradeJob, UpgradeSteps(kind))

\* the discovery job with its `if !ok` left out
FinishDiscoveryIgnoringFailure ==
    /\ JobOver(DiscoveryJob)
    /\ wfJobs' = Append(wfJobs, [job |-> DiscoveryJob, ok |-> ~wfFailed])
    /\ wfFailed' = FALSE
    /\ wfJob' = SyncJob
    /\ wfSteps' = SyncSteps
    /\ wfNext' = 1
    /\ UNCHANGED <<wfRet, wfLog, wfCells, wfWorld, mpVars, rkVars, etVars, pdVars, mnVars>>

\* ok := step.RunJob("Discovering Repository", ...); if !ok { return
\* ErrHandled }; then the synchronization job when the kind is forked
FinishDiscovery ==
    /\ JobOver(DiscoveryJob)
    /\ wfJobs' = Append(wfJobs, [job |-> DiscoveryJob, ok |-> ~wfFailed])
    /\ IF wfFailed THEN ReturnErrHandled
       ELSE IF IsForked(wfCells.goMod[1].Kind)
       THEN StartJob(SyncJob, SyncSteps) /\ UNCHANGED wfWorld
       ELSE BuildUpgradeJob
    /\ UNCHANGED <<wfLog, wfCells, mpVars, rkVars, etVars, pdVars, mnVars>>

\* ok = step.RunJob("Upgrading Forked Provider", ...); if !ok { return
\* ErrHandled }; then the steps of the upgrade job are built
FinishSync ==
    /\ JobOver(SyncJob)
    /\ wfJobs' = Append(wfJobs, [job |-> SyncJob, ok |-> ~wfFailed])
    /\ IF wfFailed THEN ReturnErrHandled ELSE BuildUpgradeJob
    /\ UNCHANGED <<wfLog, wfCells, mpVars, rkVars, etVars, pdVars, mnVars>>

\* ok = step.RunJob("Upgrading Provider", ...); if !ok { return ErrHandled };
\* return nil
FinishUpgrade ==
    /\ JobOver(UpgradeJob)
    /\ wfJobs' = Append(wfJobs, [job |-> UpgradeJob, ok |-> ~wfFailed])
    /\ IF wfFailed THEN ReturnErrHandled
       ELSE /\ wfRet' = ReturnedNil
            /\ wfJob' = NoJob
            /\ UNCHANGED <<wfSteps, wfNext, wfFailed, wfWorld>>
    /\ UNCHANGED <<wfLog, wfCells, mpVars, rkVars, etVars, pdVars, mnVars>>

\* the steps of the discovery job
EnsureProviderRepo ==
    RunStep(DiscoveryJob, StepEnsureProviderRepo, EnsureProviderRepoResults(wfCells))
SetDefaultBranch ==
    RunStep(DiscoveryJob, StepSetDefaultBranch, SetDefaultBranchResults(wfCells))
UpgradeVersion ==
    RunStep(DiscoveryJob, StepUpgradeVersion, UpgradeVersionResults(wfCells))
RepoKindStep ==
    RunStep(DiscoveryJob, StepRepoKind, RepoKindResults(wfCells))

\* the steps of the synchronization job
EnsureUpstreamRepo ==
    RunStep(SyncJob, StepEnsureUpstreamRepo,
            EnsureUpstreamRepoOutcomes(wfCells, wfWorld))
EnsurePulumiRemote == RunStep(SyncJob, StepEnsurePulumiRemote, CmdResults(wfCells))
GitFetchPulumi == RunStep(SyncJob, StepGitFetchPulumi, CmdResults(wfCells))
DiscoverPrevious ==
    RunStep(SyncJob, StepDiscoverPrevious, DiscoverPreviousResults(wfCells))
CheckoutUpstream ==
    RunStep(SyncJob, StepCheckoutUpstream, CheckoutUpstreamOutcomes(wfCells, wfWorld))
UpstreamBranch ==
    RunStep(SyncJob, StepUpstreamBranch, UpstreamBranchOutcomes(wfCells, wfWorld))
MergeUpstream ==
    RunStep(SyncJob, StepMergeUpstream, MergeUpstreamOutcomes(wfCells, wfWorld))
GoBuild == RunStep(SyncJob, StepGoBuild, CmdResults(wfCells))
PushUpstream == RunStep(SyncJob, StepPushUpstream, CmdResults(wfCells))
GetHeadCommit ==
    RunStep(SyncJob, StepGetHeadCommit, GetHeadCommitOutcomes(wfCells, wfWorld))

\* the steps of the upgrade job
EnsureBranch == RunStep(UpgradeJob, StepEnsureBranch, CmdResults(wfCells))
GoGetBridge == RunStep(UpgradeJob, StepGoGetBridge, CmdResults(wfCells))
LookupTagSHA == RunStep(UpgradeJob, StepLookupTagSHA, LookupTagSHAResults(wfCells))
GoGetUpstream ==
    RunStep(UpgradeJob, StepGoGetUpstream, GoGetUpstreamOutcomes(wfCells, wfWorld))
ModEditReplace ==
    RunStep(UpgradeJob, StepModEditReplace, ModEditReplaceOutcomes(wfCells, wfWorld))
ModTidyOuter == RunStep(UpgradeJob, StepModTidyOuter, CmdResults(wfCells))
ModTidy == RunStep(UpgradeJob, StepModTidy, CmdResults(wfCells))
PluginRm == RunStep(UpgradeJob, StepPluginRm, CmdResults(wfCells))
MakeTfgen == RunStep(UpgradeJob, StepMakeTfgen, CmdResults(wfCells))
GitAddTfgen == RunStep(UpgradeJob, StepGitAddTfgen, CmdResults(wfCells))
CommitTfgen == RunStep(UpgradeJob, StepCommitTfgen, CmdResults(wfCells))
MakeBuildSdks == RunStep(UpgradeJob, StepMakeBuildSdks, CmdResults(wfCells))
GitAddSdks == RunStep(UpgradeJob, StepGitAddSdks, CmdResults(wfCells))
CommitSdks == RunStep(UpgradeJob, StepCommitSdks, CmdResults(wfCells))
GitPush == RunStep(UpgradeJob, StepGitPush, CmdResults(wfCells))

Init ==
    /\ wfJob = DiscoveryJob
    /\ wfSteps = DiscoverySteps
    /\ wfNext = 1
    /\ wfFailed = FALSE
    /\ wfLog = <<>>
    /\ wfJobs = <<>>
    /\ wfCells = NoCells
    /\ wfRet = Running
    /\ wfWorld = NoWorld
    /\ ModPathIdle
    /\ RepoKindIdle
    /\ TargetIdle
    /\ PullDefaultIdle
    /\ MainIdle

Next ==
    \/ EnsureProviderRepo \/ SetDefaultBranch \/ UpgradeVersion \/ RepoKindStep
    \/ FinishDiscovery
    \/ EnsureUpstreamRepo \/ EnsurePulumiRemote \/ GitFetchPulumi
    \/ DiscoverPrevious \/ CheckoutUpstream \/ UpstreamBranch \/ MergeUpstream
    \/ GoBuild \/ PushUpstream \/ GetHeadCommit
    \/ FinishSync
    \/ EnsureBranch \/ GoGetBridge \/ LookupTagSHA \/ GoGetUpstream
    \/ ModEditReplace \/ ModTidyOuter \/ ModTidy \/ PluginRm \/ MakeTfgen
    \/ GitAddTfgen \/ CommitTfgen \/ MakeBuildSdks \/ GitAddSdks \/ CommitSdks
    \/ GitPush
    \/ FinishUpgrade

Spec == Init /\ [][Next]_vars

\* ------------------------------------------------------------------------
\* Specification SpecMain: the Run function of cmd, after UpgradeProvider
\* has returned to it
\* ------------------------------------------------------------------------

\* An error is the chain of errors Unwrap walks through, outermost first;
\* the empty chain is nil.  The errors a chain is made of:
ErrExitStatus == "exit status 1"
ErrCanceled == "context canceled"
ErrorValues == {ErrHandled, ErrExitStatus, ErrCanceled}
Errors == SeqsUpTo(ErrorValues, MaxWrap)

\* errors.Is comparing the outermost error only
errorsIsOutermost(err, target) == err # <<>> /\ err[1] = target

\* errors.Is(err, target): some error of the chain equals target
errorsIs(err, target) == \E i \in 1..Len(err) : err[i] = target

\* fmt.Printf("error: %s\n", err.Error())
ErrorLine(err) == [text |-> "error: %s", arg |-> err]

\* err := UpgradeProvider(context, args[0])
InitMain ==
    /\ mnErr \in Errors
    /\ mnPc = "errors.Is"
    /\ mnOut = <<>>
    /\ mnExit = <<>>
    /\ ModPathIdle
    /\ RepoKindIdle
    /\ TargetIdle
    /\ PullDefaultIdle
    /\ WorkflowIdle

\* if errors.Is(err, ErrHandled) { os.Exit(1) }
CheckHandled ==
    /\ mnPc = "errors.Is"
    /\ IF errorsIs(mnErr, ErrHandled)
       THEN mnExit' = <<1>> /\ mnPc' = "exited"
       ELSE mnPc' = "err != nil" /\ UNCHANGED mnExit
    /\ UNCHANGED <<mnErr, mnOut, mpVars, rkVars, etVars, pdVars, wfVars>>

\* if err != nil { ... }; otherwise Run returns
CheckNil ==
    /\ mnPc = "err != nil"
    /\ mnPc' = IF mnErr # <<>> THEN "print" ELSE "returned"
    /\ UNCHANGED <<mnErr, mnOut, mnExit, mpVars, rkVars, etVars, pdVars, wfVars>>

\* fmt.Printf("error: %s\n", err.Error())
PrintError ==
    /\ mnPc = "print"
    /\ mnOut' = Append(mnOut, ErrorLine(mnErr))
    /\ mnPc' = "os.Exit"
    /\ UNCHANGED <<mnErr, mnExit, mpVars, rkVars, etVars, pdVars, wfVars>>

\* os.Exit(1)
ExitAfterPrint ==
    /\ mnPc = "os.Exit"
    /\ mnExit' = <<1>>
    /\ mnPc' = "exited"
    /\ UNCHANGED <<mnErr, mnOut, mpVars, rkVars, etVars, pdVars, wfVars>>

NextMain == CheckHandled \/ CheckNil \/ PrintError \/ ExitAfterPrint

SpecMain == InitMain /\ [][NextMain]_vars

\* ------------------------------------------------------------------------
\* Properties of cmd's Run
\* ------------------------------------------------------------------------
MainOver == mnPc \in {"exited", "returned"}
CarriesErrHandled == \E i \in 1..Len(mnErr) : mnErr[i] = ErrHandled

\* C11: an error that is ErrHandled (by itself or wrapped) ends the process
\* with status 1 and nothing printed; any other error that is not nil is
\* printed, once and before the exit, and ends the process with status 1;
\* nil prints nothing and Run returns without calling os.Exit.
C11_TopLevelRendering ==
    /\ CarriesErrHandled =>
          /\ mnOut = <<>>
          /\ MainOver => mnPc = "exited" /\ mnExit = <<1>>
    /\ (mnErr # <<>> /\ ~CarriesErrHandled) =>
          /\ mnExit # <<>> => mnOut = <<ErrorLine(mnErr)>>
          /\ mnOut \in {<<>>, <<ErrorLine(mnErr)>>}
          /\ MainOver => mnPc = "exited" /\ mnExit = <<1>>
    /\ mnErr = <<>> =>
          /\ mnOut = <<>>
          /\ mnExit = <<>>
          /\ mnPc # "exited"

\* an error that wraps another and is not ErrHandled has been printed and
\* the process has exited
C11_Witness ==
    /\ mnPc = "exited"
    /\ Len(mnErr) = 2
    /\ ~CarriesErrHandled
    /\ mnOut = <<ErrorLine(mnErr)>>

\* ------------------------------------------------------------------------
\* Properties of UpgradeProvider
\* ------------------------------------------------------------------------
SomeStepFailed == \E i \in 1..Len(wfLog) : wfLog[i].outcome = "fail"

\* C1: a step that fails is the last step attempted, in its job and in the
\* run: the job returns and UpgradeProvider returns ErrHandled without
\* starting another job; it returns nil only when every job it started
\* reported success.
C1_FailFastAcrossJobs ==
    /\ \A i \in 1..(Len(wfLog) - 1) : wfLog[i].outcome = "ok"
    /\ SomeStepFailed =>
          /\ wfRet \in {Running, ErrHandled}
          /\ wfRet = Running =>
                /\ ENABLED (FinishDiscovery \/ FinishSync \/ FinishUpgrade)
                /\ wfJobs = <<>> \/ wfJobs[Len(wfJobs)].ok
          /\ wfRet = ErrHandled => ~wfJobs[Len(wfJobs)].ok
    /\ wfRet = ErrHandled => SomeStepFailed
    /\ wfRet = ReturnedNil =>
          /\ \A j \in 1..Len(wfJobs) : wfJobs[j].ok
          /\ \A i \in 1..Len(wfLog) : wfLog[i].outcome = "ok"
          /\ wfJobs[Len(wfJobs)].job = UpgradeJob

\* the second job was started and one of its first steps failed
C1_Witness ==
    /\ wfRet = ErrHandled
    /\ Len(wfJobs) = 2
    /\ wfJobs[1].ok
    /\ ~wfJobs[2].ok
    /\ wfLog[Len(wfLog)].outcome = "fail"
    /\ Len(wfLog) < Len(DiscoverySteps) + Len(SyncSteps)

\* ------------------------------------------------------------------------
\* Properties of modPathWithoutVersion
\* ------------------------------------------------------------------------
DecimalDigits == {"0", "1", "2", "3", "4", "5", "6", "7", "8", "9"}

\* d is the decimal numeral of a major version of 2 or more: "2".."9",
\* "10", "11", ...
IsMajorVersionNumeral(d) ==
    /\ Len(d) >= 1
    /\ \A k \in 1..Len(d) : d[k] \in DecimalDigits
    /\ d[1] # "0"
    /\ d # <<"1">>

\* t is exactly a major-version suffix: "/v" and such a numeral
IsMajorVersionSuffix(t) ==
    /\ Len(t) >= 3
    /\ t[1] = "/"
    /\ t[2] = "v"
    /\ IsMajorVersionNumeral(SubSeq(t, 3, Len(t)))

\* the positions of p at which a major-version suffix starts that reaches
\* the end of p
MajorSuffixStarts(p) ==
    {i \in 1..Len(p) : IsMajorVersionSuffix(SubSeq(p, i, Len(p)))}

\* C7: modPathWithoutVersion returns a path that ends in "/v" and a major
\* version number of 2 or more (multi-digit numbers such as "/v10"
\* included) without that suffix, and returns every other path, a path
\* ending in "/v1" among them, unchanged.
C7_StripsEveryMajorVersionSuffix ==
    mpOut # NotReturned =>
        IF MajorSuffixStarts(mpPath) = {}
        THEN mpOut = mpPath
        ELSE \E i \in MajorSuffixStarts(mpPath) : mpOut = SubSeq(mpPath, 1, i - 1)

\* ------------------------------------------------------------------------
\* Properties of repoKind
\* ------------------------------------------------------------------------
\* the manifest the upstream is looked up in, when the lookup is reached
LookupReached ==
    /\ rkFs.outer.status = "ok"
    /\ \/ rkFs.shimStat = "notexist"
       \/ rkFs.shimStat = "ok" /\ rkFs.shim.status = "ok"
LookupFile == IF rkFs.shimStat = "ok" THEN rkFs.shim.file ELSE rkFs.outer.file
LookupMatches ==
    {i \in 1..Len(LookupFile.Require) :
        HasSuffix(modPathWithoutVersion(LookupFile.Require[i].Path), RepoFoo)}
LookupFailed == rkOut.err \in {ErrNoUpstream, ErrShimUpstream}

\* the directives of the outer manifest that replace the upstream found
UpstreamFound == LookupReached /\ LookupMatches # {}
FoundUpstream == lookupUpstream(rkFs, RepoFoo).mod
MatchingReplaces ==
    {i \in 1..Len(rkFs.outer.file.Replace) :
        rkFs.outer.file.Replace[i].Old.Path = FoundUpstream.Path}
FirstMatchingReplace ==
    CHOOSE i \in MatchingReplaces : \A j \in MatchingReplaces : i <= j

\* the new path of a directive cut around the first "/terraform-provider-foo"
NewPathCut(r) == Cut(r.New.Path, <<"/">> \o RepoFoo)
\* the segment before it is not exactly "pulumi"
UntrustedOrg(r) ==
    LET c == NewPathCut(r)
    IN  c.found /\ SubSeq(c.before, LastIndexByte(c.before, "/") + 1, Len(c.before)) # Pulumi

\* every fork repoKind returns is maintained by "pulumi"
ReturnedForkTrusted ==
    rkOut.err = None /\ rkOut.Fork # NoFork =>
        /\ NewPathCut(rkOut.Fork[1]).found
        /\ ~UntrustedOrg(rkOut.Fork[1])

\* C2 as stated: any replace directive of the upstream whose organisation
\* segment is not "pulumi" makes repoKind fail, and no returned fork is
\* maintained by another organisation.
C2_AnyUntrustedReplaceIsFatal ==
    rkDone =>
        /\ UpstreamFound =>
              \A i \in MatchingReplaces :
                  UntrustedOrg(rkFs.outer.file.Replace[i]) => rkOut.err # None
        /\ ReturnedForkTrusted

\* C2 amended: the first replace directive of the upstream, in the order of
\* the manifest, makes repoKind fail when its organisation segment is not
\* "pulumi"; and no returned fork is maintained by another organisation.
C2_FirstUntrustedReplaceIsFatal ==
    rkDone =>
        /\ UpstreamFound /\ MatchingReplaces # {} =>
              (UntrustedOrg(rkFs.outer.file.Replace[FirstMatchingReplace])
                  => rkOut.err \in {ErrForkOrg, ErrIncorrectRepo})
        /\ ReturnedForkTrusted

C2_Witness ==
    /\ rkDone
    /\ UpstreamFound
    /\ MatchingReplaces # {}
    /\ UntrustedOrg(rkFs.outer.file.Replace[FirstMatchingReplace])
    /\ rkOut.err = ErrForkOrg

\* C3: a returned fork's new path is "/terraform-provider-foo" followed by
\* nothing or by exactly a major-version suffix; a directive of the upstream
\* with any other text after that substring makes repoKind fail.
C3_ForkPathEndsAtRepoOrVersion ==
    rkDone /\ rkOut.err = None /\ rkOut.Fork # NoFork =>
        LET c == NewPathCut(rkOut.Fork[1])
        IN  c.found /\ (c.after = <<>> \/ IsMajorVersionSuffix(c.after))

\* C4: the upstream lookup succeeds only when exactly one require entry's
\* version-stripped path ends with "terraform-provider-foo", and then
\* returns that entry; with no such entry or with several it fails.
C4_LookupNeedsExactlyOneMatch ==
    rkDone /\ LookupReached =>
        IF Cardinality(LookupMatches) = 1
        THEN /\ ~LookupFailed
             /\ rkOut.err = None =>
                    \E i \in LookupMatches : rkOut.Upstream = LookupFile.Require[i]
        ELSE LookupFailed

\* C5: in every result returned without error, Fork is present exactly when
\* Kind is Forked or ForkedAndShimmed, and Kind is Forked or Plain (by fork
\* found or not), turned into its shimmed form exactly when the shim
\* directory was found.
C5_KindMatchesForkAndShim ==
    rkDone /\ rkOut.err = None =>
        /\ rkOut.Fork # NoFork <=> rkOut.Kind \in {Forked, ForkedAndShimmed}
        /\ rkOut.Kind =
              (CASE rkOut.Fork = NoFork /\ rkFs.shimStat # "ok" -> Plain
                 [] rkOut.Fork # NoFork /\ rkFs.shimStat # "ok" -> Forked
                 [] rkOut.Fork = NoFork /\ rkFs.shimStat = "ok" -> Shimmed
                 [] rkOut.Fork # NoFork /\ rkFs.shimStat = "ok" -> ForkedAndShimmed)

C5_Witness ==
    /\ rkDone
    /\ rkOut.err = None
    /\ rkOut.Fork # NoFork
    /\ rkFs.shimStat = "ok"
    /\ rkOut.Kind = ForkedAndShimmed

\* C6: when the shim directory exists the result is shimmed and Upstream is
\* the entry of the shim's manifest, whatever the outer manifest requires;
\* when it does not exist Upstream is the entry of the outer manifest; any
\* other answer of the probe is fatal.
C6_ShimManifestTakesPrecedence ==
    rkDone /\ rkFs.outer.status = "ok" =>
        /\ rkFs.shimStat = "error" => rkOut.err = ErrShimStat
        /\ rkFs.shimStat = "ok" /\ rkOut.err = None =>
              /\ rkOut.Kind \in {Shimmed, ForkedAndShimmed}
              /\ rkOut.Upstream = getUpstream(rkFs.shim.file, RepoFoo).mod
        /\ rkFs.shimStat = "notexist" /\ rkOut.err = None =>
              /\ rkOut.Kind \in {Plain, Forked}
              /\ rkOut.Upstream = getUpstream(rkFs.outer.file, RepoFoo).mod
        /\ (/\ rkFs.shimStat = "ok"
            /\ rkFs.shim.status = "ok"
            /\ ~getUpstream(rkFs.shim.file, RepoFoo).err
            /\ rkFs.outer.file.Replace = <<>>) => rkOut.err = None

\* the shim exists and names another upstream entry than the outer manifest
C6_Witness ==
    /\ rkDone
    /\ rkOut.err = None
    /\ rkFs.shimStat = "ok"
    /\ ~getUpstream(rkFs.outer.file, RepoFoo).err
    /\ getUpstream(rkFs.outer.file, RepoFoo).mod # rkOut.Upstream
    /\ rkOut.Upstream = getUpstream(rkFs.shim.file, RepoFoo).mod

\* ------------------------------------------------------------------------
\* Properties of getExpectedTarget
\* ------------------------------------------------------------------------
\* the versions the titles yield: every title that holds the pattern and
\* whose text after " to " parses
ParsedVersions ==
    {titleVersion(etTitles[i]).v :
        i \in {k \in 1..Len(etTitles) : ~titleVersion(etTitles[k]).err}}

\* C8: the resolver returns the greatest of the versions parsed from the
\* titles, whatever the order of the titles, and fails with "no upgrade
\* found" exactly when no title yields a version.
C8_ReturnsMaximumVersion ==
    etDone /\ etGh = "ok" =>
        IF ParsedVersions = {}
        THEN etOut.err = ErrNoUpgrade
        ELSE /\ etOut.err = None
             /\ etOut.v \in ParsedVersions
             /\ \A w \in ParsedVersions : w # etOut.v => LessThan(w, etOut.v)

\* a later title holds the greatest version, below it a pre-release of it
C8_Witness ==
    /\ etDone
    /\ etOut.err = None
    /\ Len(etTitles) = 3
    /\ titleVersion(etTitles[3]).v = etOut.v
    /\ ~titleVersion(etTitles[1]).err
    /\ etOut.v = [Major |-> 1, Minor |-> 10, Patch |-> 0, Pre |-> <<>>]
    /\ [Major |-> 1, Minor |-> 10, Patch |-> 0, Pre |-> <<"r","c","1">>] \in ParsedVersions

\* the versions of the titles that are exactly
\* "Upgrade terraform-provider-foo to <version>"
ExactTitlePrefix == UpgradePrefix \o ProviderName \o ToSeparator
ExactShapeVersions ==
    {NewVersion(TrimPrefix(etTitles[i], ExactTitlePrefix)).v :
        i \in {k \in 1..Len(etTitles) :
                  /\ HasPrefix(etTitles[k], ExactTitlePrefix)
                  /\ ~NewVersion(TrimPrefix(etTitles[k], ExactTitlePrefix)).err}}

\* C9: only titles of the exact shape "Upgrade terraform-provider-foo to
\* <version>" contribute: the result is the version of such a title, and a
\* title naming another provider or with text before the pattern yields none.
C9_OnlyExactTitlesContribute ==
    etDone /\ etGh = "ok" =>
        IF ExactShapeVersions = {}
        THEN etOut.err = ErrNoUpgrade
        ELSE etOut.err = None /\ etOut.v \in ExactShapeVersions

\* ------------------------------------------------------------------------
\* Properties of pullDefault
\* ------------------------------------------------------------------------
\* the names of the remote's branches, read off the lines of ls-remote
RemoteBranchNames ==
    {SubSeq(pdRemote.lines[i], Len(HeadLine(<<>>)) + 1, Len(pdRemote.lines[i])) :
        i \in {k \in 1..Len(pdRemote.lines) : pdRemote.lines[k] # <<>>}}

RanCheckoutOrPull ==
    \E i \in 1..Len(pdCmds) : pdCmds[i][2] \in {"checkout", "pull"}

\* C10: once the branches are listed, the branch chosen is "main" when the
\* remote has it, else "master" when it has that, whatever their order;
\* with neither, pullDefault fails and runs no checkout and no pull.
C10_PrefersMainThenMaster ==
    pdRemote.ok /\ pdPc # "ls-remote" =>
        /\ pdPc # "panic"
        /\ IF Main \in RemoteBranchNames THEN pdTarget = Main
           ELSE IF Master \in RemoteBranchNames THEN pdTarget = Master
           ELSE /\ pdPc = "done"
                /\ pdOut.err = ErrNoDefaultBranch
                /\ ~RanCheckoutOrPull
        /\ \A i \in 1..Len(pdCmds) :
              pdCmds[i][2] = "checkout" => pdCmds[i] = GitCmd(<<"checkout", pdTarget>>)
        /\ pdOut.err = None => pdOut.branch = pdTarget

\* "master" is listed before "main" and "main" was checked out and pulled
C10_Witness ==
    /\ pdPc = "done"
    /\ pdOut = [err |-> None, branch |-> Main]
    /\ Len(pdRemote.lines) >= 3
    /\ pdRemote.lines[1] = HeadLine(Master)
    /\ \E i \in 2..Len(pdRemote.lines) : pdRemote.lines[i] = HeadLine(Main)
    /\ RanCheckoutOrPull

\* ------------------------------------------------------------------------
\* Properties of RepoKind.Shimmed
\* ------------------------------------------------------------------------

\* C12: Shimmed() maps Plain to Shimmed and Forked to ForkedAndShimmed and
\* leaves Shimmed and ForkedAndShimmed as they are; applied twice it gives
\* what it gives applied once, and it keeps IsForked, for each of the four
\* kinds; the kind repoKind returns for a repository with a shim is one
\* Shimmed() leaves as it is, forked exactly when a fork was found.
C12_ShimmedIsIdempotent ==
    /\ RepoKindShimmed(Plain) = Shimmed
    /\ RepoKindShimmed(Forked) = ForkedAndShimmed
    /\ RepoKindShimmed(Shimmed) = Shimmed
    /\ RepoKindShimmed(ForkedAndShimmed) = ForkedAndShimmed
    /\ \A rk \in RepoKinds :
          /\ RepoKindShimmed(RepoKindShimmed(rk)) = RepoKindShimmed(rk)
          /\ IsForked(RepoKindShimmed(rk)) = IsForked(rk)
          /\ IsShimmed(RepoKindShimmed(rk))
    /\ (rkDone /\ rkOut.err = None /\ rkFs.shimStat = "ok") =>
          /\ RepoKindShimmed(rkOut.Kind) = rkOut.Kind
          /\ IsForked(rkOut.Kind) = (rkOut.Fork # NoFork)

\* repoKind has applied Shimmed() to Forked and to Plain
C12_Witness ==
    /\ rkDone
    /\ rkOut.err = None
    /\ rkFs.shimStat = "ok"
    /\ rkOut.Kind \in {Shimmed, ForkedAndShimmed}
    /\ RepoKindShimmed(rkOut.Kind) = rkOut.Kind

\* ------------------------------------------------------------------------
\* Properties of the synchronization job
\* ------------------------------------------------------------------------

\* C13: whenever "merge upstream branch" has run, HEAD of the upstream
\* checkout was the local branch upstream-v<target>, whether "upstream
\* branch" created that branch or found it existing; and the revision "get
\* head commit" recorded is that of the same branch.
C13_MergeAppliesToTargetBranch ==
    /\ wfWorld.mergeHead # <<>> =>
          wfWorld.mergeHead[1] = OnBranch(upstreamBranchName(wfCells))
    /\ wfWorld.recordHead # <<>> =>
          wfWorld.recordHead[1] = OnBranch(upstreamBranchName(wfCells))

\* ------------------------------------------------------------------------
\* Properties of the upgrade job
\* ------------------------------------------------------------------------
KindFound == wfCells.goMod[1].Kind
TagOfTarget == <<"v">> \o VersionString(wfCells.target[1])

\* C14: the reference `go get <upstream>@<ref>` is run with is the tag
\* v<target> when the kind is not forked, and the revision the
\* synchronization job recorded when it is.
C14_GoGetUsesTagOrRecordedRevision ==
    wfWorld.goGetRef # <<>> =>
        wfWorld.goGetRef[1].ref =
            IF IsForked(KindFound) THEN wfCells.forkedProviderUpstreamCommit
            ELSE TagOfTarget

\* the jobs in the order UpgradeProvider can run them
JobRank(job) ==
    CASE job = DiscoveryJob -> 1
      [] job = SyncJob      -> 2
      [] job = UpgradeJob   -> 3
DiscoverySucceeded == Len(wfJobs) >= 1 /\ wfJobs[1].ok
SyncReturned == Len(wfJobs) >= 2 /\ wfJobs[2].job = SyncJob
SyncStarted ==
    \/ wfJob = SyncJob
    \/ SyncReturned
    \/ \E i \in 1..Len(wfLog) : wfLog[i].job = SyncJob
UpgradeStarted ==
    \/ wfJob = UpgradeJob
    \/ \E j \in 1..Len(wfJobs) : wfJobs[j].job = UpgradeJob
    \/ \E i \in 1..Len(wfLog) : wfLog[i].job = UpgradeJob

\* C15: the synchronization job is run exactly when discovery succeeded with
\* a forked kind; its steps come after those of the discovery job and before
\* those of the upgrade job, which starts only after it reported success;
\* the upgrade job has the replace-directive step exactly when the kind is
\* forked, and that step replaces the fork's old path by its new path at the
\* recorded revision.
C15_SyncJobExactlyWhenForked ==
    /\ \A i, j \in 1..Len(wfLog) :
          i < j => JobRank(wfLog[i].job) <= JobRank(wfLog[j].job)
    /\ SyncStarted => DiscoverySucceeded /\ IsForked(KindFound)
    /\ (DiscoverySucceeded /\ IsForked(KindFound)) => SyncStarted
    /\ UpgradeStarted =>
          /\ DiscoverySucceeded
          /\ IsForked(KindFound) => SyncReturned /\ wfJobs[2].ok
    /\ wfJob = UpgradeJob =>
          ((\E i \in 1..Len(wfSteps) : wfSteps[i] = StepModEditReplace)
              <=> IsForked(KindFound))
    /\ wfWorld.replaceArg # <<>> =>
          /\ IsForked(KindFound)
          /\ wfWorld.replaceArg[1] =
                [old |-> wfCells.goMod[1].Fork[1].Old.Path,
                 new |-> wfCells.goMod[1].Fork[1].New.Path,
                 rev |-> wfCells.forkedProviderUpstreamCommit]
          /\ wfWorld.recordHead # <<>>

\* the replace directive was written after a synchronization job
C15_Witness ==
    /\ wfWorld.replaceArg # <<>>
    /\ SyncReturned
    /\ wfLog[Len(wfLog)].label = StepModEditReplace
    /\ wfLog[Len(wfLog)].outcome = "ok"

\* the steps that edit the dependencies of the provider
DependencyEdits ==
    {StepGoGetBridge, StepGoGetUpstream, StepModEditReplace, StepModTidyOuter,
     StepModTidy}
\* the entries i-2, i-1 of the log are the steps a and b, and succeeded
PrecededBy(i, a, b) ==
    /\ i > 2
    /\ wfLog[i - 2].label = a /\ wfLog[i - 2].outcome = "ok"
    /\ wfLog[i - 1].label = b /\ wfLog[i - 1].outcome = "ok"

\* C16: in the upgrade job "ensure branch" has succeeded before any step
\* that edits the dependencies runs; "make tfgen", stage-all and commit have
\* succeeded, in this order and with nothing in between, when "make
\* build_sdks" starts; stage-all and commit follow "make build_sdks" in the
\* same way; the push is the last step of the job, runs after that commit
\* and only when every step before it succeeded.
C16_UpgradeJobOrder ==
    /\ wfJob = UpgradeJob =>
          /\ wfSteps[1] = StepEnsureBranch
          /\ wfSteps[Len(wfSteps)] = StepGitPush
          /\ \A i \in 1..(Len(wfSteps) - 1) : wfSteps[i] # StepGitPush
    /\ \A i \in 1..Len(wfLog) :
          /\ wfLog[i].label \in DependencyEdits =>
                \E j \in 1..(i - 1) :
                    wfLog[j].label = StepEnsureBranch /\ wfLog[j].outcome = "ok"
          /\ wfLog[i].label = StepCommitTfgen =>
                PrecededBy(i, StepMakeTfgen, StepGitAddTfgen)
          /\ wfLog[i].label = StepMakeBuildSdks =>
                PrecededBy(i, StepGitAddTfgen, StepCommitTfgen)
          /\ wfLog[i].label = StepCommitSdks =>
                PrecededBy(i, StepMakeBuildSdks, StepGitAddSdks)
          /\ wfLog[i].label = StepGitPush =>
                /\ PrecededBy(i, StepGitAddSdks, StepCommitSdks)
                /\ i = Len(wfLog)
                /\ \A j \in 1..(i - 1) : wfLog[j].outcome = "ok"
    /\ wfRet = ReturnedNil =>
          /\ wfLog[Len(wfLog)].label = StepGitPush
          /\ wfLog[Len(wfLog)].outcome = "ok"

\* the work branch was pushed
C16_Witness ==
    /\ wfLog # <<>>
    /\ wfLog[Len(wfLog)].label = StepGitPush
    /\ wfLog[Len(wfLog)].outcome = "ok"
    /\ wfRet = Running

\* ------------------------------------------------------------------------
\* Properties of the variables the steps share
\* ------------------------------------------------------------------------
\* the step that writes each variable through AssignTo
Writer ==
    [path |-> StepEnsureProviderRepo, upstreamPath |-> StepEnsureUpstreamRepo,
     targetSHA |-> StepLookupTagSHA,
     forkedProviderUpstreamCommit |-> StepGetHeadCommit]
Unset == [path |-> "", upstreamPath |-> "", targetSHA |-> <<>>,
          forkedProviderUpstreamCommit |-> <<>>]
InPath ==
    {StepSetDefaultBranch, StepEnsureBranch, StepMakeTfgen, StepGitAddTfgen,
     StepCommitTfgen, StepMakeBuildSdks, StepGitAddSdks, StepCommitSdks,
     StepGitPush}
InProvider == DependencyEdits
InUpstreamPath ==
    {SyncSteps[i] : i \in 2..Len(SyncSteps)}

\* a variable holds a value only after its writer succeeded, and every step
\* that has read it saw the value it holds
CellsAreSeen ==
    /\ \A x \in DOMAIN Writer :
          wfCells[x] # Unset[x] =>
              \E i \in 1..Len(wfLog) :
                  wfLog[i].label = Writer[x] /\ wfLog[i].outcome = "ok"
    /\ \A i \in 1..Len(wfLog) :
          /\ wfLog[i].label \in InPath \cup InProvider =>
                wfLog[i].dir.base = wfCells.path /\ wfCells.path # ""
          /\ wfLog[i].label \in InUpstreamPath =>
                wfLog[i].dir.base = wfCells.upstreamPath
                /\ wfCells.upstreamPath # ""
    /\ (wfWorld.goGetRef # <<>> /\ ~IsForked(KindFound)) =>
          /\ wfCells.targetSHA # <<>>
          /\ wfWorld.goGetRef[1].ref = wfCells.targetSHA
    /\ wfWorld.replaceArg # <<>> =>
          /\ wfCells.forkedProviderUpstreamCommit # <<>>
          /\ wfWorld.replaceArg[1].rev = wfCells.forkedProviderUpstreamCommit

\* a step that changes a variable is the writer of that variable, succeeds,
\* and no other of these variables changes with it
OneWriter ==
    \A x \in DOMAIN Writer :
        wfCells'[x] # wfCells[x] =>
            /\ wfLog' = Append(wfLog, wfLog'[Len(wfLog')])
            /\ wfLog'[Len(wfLog')].label = Writer[x]
            /\ wfLog'[Len(wfLog')].outcome = "ok"
            /\ wfCells[x] = Unset[x]

\* C17: a value a step writes through AssignTo (path, upstreamPath,
\* targetSHA, forkedProviderUpstreamCommit) is the value every later step
\* reads, the step made by step.Computed included, which reads targetSHA
\* when it runs; each of these variables is written by one step only.
C17_ResultBindingIsSeenLater == [](CellsAreSeen) /\ [][OneWriter]_vars

\* go get ran with the SHA that "Lookup Tag SHA" wrote to targetSHA
C17_Witness ==
    /\ wfWorld.goGetRef # <<>>
    /\ ~IsForked(KindFound)
    /\ wfCells.targetSHA # <<>>
    /\ wfWorld.goGetRef[1].ref = wfCells.targetSHA

\* ------------------------------------------------------------------------
\* Properties of cancellation
\* ------------------------------------------------------------------------

\* C18: whenever the run's context is cancelled while the command of a step
\* executes, whatever the step and the job, the cancellation reaches that
\* command: the command is killed and the step fails; the steps that had
\* completed before stay completed.
C18_CancellationReachesEveryCommand ==
    \A i \in 1..Len(wfLog) :
        wfLog[i].signal # "none" =>
            /\ wfLog[i].signal = "delivered"
            /\ wfLog[i].outcome = "fail"
            /\ \A j \in 1..(i - 1) : wfLog[j].outcome = "ok"

\* ------------------------------------------------------------------------
\* Properties of the assertions
\* ------------------------------------------------------------------------

\* C19: whatever `git ls-remote --tags` prints, "Lookup Tag SHA" returns:
\* it never stops at the assertion that a line has two tab-separated parts,
\* and when it has not succeeded it has failed with an error.
C19_LookupTagSHANeverPanics ==
    \A i \in 1..Len(wfLog) :
        wfLog[i].label = StepLookupTagSHA => wfLog[i].outcome \in {"ok", "fail"}

\* contract.Assert(forkedProviderUpstreamCommit != "") has failed
ReplaceAssertFailed == wfRet = Panicked /\ wfJob = NoJob

\* C20: when the steps of the upgrade job are built for a forked kind, the
\* synchronization job has reported success and forkedProviderUpstreamCommit
\* is not empty, so the assertion before the replace-directive step never
\* fails; and when the discovery job has reported success, target and goMod
\* are set, goMod with its upstream and, for a forked kind, its fork.
C20_AssertionsHold ==
    /\ ~ReplaceAssertFailed
    /\ (wfWorld.built # <<>> /\ IsForked(KindFound)) =>
          /\ SyncReturned /\ wfJobs[2].ok
          /\ wfWorld.built[1].forkedProviderUpstreamCommit # <<>>
    /\ DiscoverySucceeded =>
          /\ wfCells.target # <<>>
          /\ wfCells.goMod # <<>>
          /\ wfCells.goMod[1].err = None
          /\ wfCells.goMod[1].Kind \in RepoKinds
          /\ wfCells.goMod[1].Upstream # NoModule
          /\ IsForked(KindFound) => wfCells.goMod[1].Fork # NoFork

\* the steps of the upgrade job were built for a forked kind
C20_Witness ==
    /\ wfWorld.built # <<>>
    /\ IsForked(KindFound)
    /\ wfJob = UpgradeJob
    /\ wfWorld.built[1].forkedProviderUpstreamCommit = HeadCommit

====
